---- MODULE Spec2Model ----
(***************************************************************************)
(* The API session of protonvpn_nm_lib (core/session/session.py): the      *)
(* keyring-backed session life cycle (load, authenticate, refresh, logout) *)
(* and the ErrorStrategy decorator that wraps every API call.              *)
(*                                                                         *)
(* The process is single threaded.  Its call stack is the variable stack:  *)
(* one frame per activation of ErrorStrategy.__call__ ("call"), of a       *)
(* decorated function body ("body"), of ErrorStrategyNormalCall._handle_401*)
(* ("h401") and of a caching property ("acc").  A state of the model is a  *)
(* point where the outside world is about to answer (the transport, the    *)
(* route lookup, the clock, a file) or where the keyring has just been     *)
(* written; a step runs the code from one such point to the next, through  *)
(* every return and every except clause on the way (Unwind).               *)
(***************************************************************************)
EXTENDS Integers, Sequences, FiniteSets, TLC

VARIABLES
    alive,                \* a process holding an APISession exists
    keyring,              \* ExecutionEnvironment().keyring, the three entries
    proton_user,          \* APISession.__proton_user
    api_login,            \* the login whose tokens APISession.__proton_api holds
    url,                  \* APISession.url (= __proton_api.api_url)
    tls_verification,     \* APISession._tls_verification
    vpn_data,             \* APISession.__vpn_data
    cache,                \* the four cached objects and their __next_fetch_*
    corrupt,              \* the cache files on disk that cannot be parsed
    alternative_url,      \* api_metadata.get_alternative_url()
    alternative_routing,  \* settings.alternative_routing == ENABLED
    killswitch,           \* settings.killswitch, the value the settings store holds
    killswitch_obj,       \* Settings.killswitch_obj: None or the setting applied to it
    stack,                \* the call stack, innermost frame last
    op,                   \* the public operation in progress or last finished
    pre,                  \* identity and session entries when the logout under way began
    ev,                   \* what that operation's own decorator and body have done
    faults,               \* how many requests and files have failed during it
    log,                  \* where a log is kept: what every call of it has done, in order
    window                \* per cached object its *_timestamp and its __next_fetch_*

vars == <<alive, keyring, proton_user, api_login, url, tls_verification, vpn_data,
          cache, corrupt, alternative_url, alternative_routing, killswitch,
          killswitch_obj, stack, op, pre, ev, faults,
          log, window>>

(***************************************************************************)
(* Values                                                                  *)
(***************************************************************************)
None == "None"

MaxRoutes == 2

\* The requests and files that may fail in the course of one public operation.
MaxFaults == 2

Users == {"u1", "u2"}

PrimaryHost == "api"

AltHosts == {"alt1", "alt2"}

Hosts == {PrimaryHost} \cup AltHosts

\* "https://{}".format(route)
HttpsUrl(route) == <<"https", route>>

API_URL == HttpsUrl(PrimaryHost)

Resources == {"logicals", "clientconfig", "streaming", "icons"}

\* The lists session._get_alternative_routes() may return: every list of at most
\* MaxRoutes distinct hosts.
RouteLists ==
    {r \in UNION {[1..n -> Hosts] : n \in 0..MaxRoutes} :
        \A i, j \in 1..Len(r) : i # j => r[i] # r[j]}

\* Remote error codes: the ones some handler is named after, and 500 for the rest.
Codes == {401, 403, 429, 503, 5002, 5003, 8002, 10013, 500}

Exc(cls) == [cls |-> cls, code |-> 0]

ApiError(code) == [cls |-> "ProtonAPIError", code |-> code]

Ok == Exc("ok")

\* proton.exceptions raised by the transport below ProtonNetworkError
TransportClasses ==
    {"ConnectionTimeOutError", "TLSPinningError", "NewConnectionError",
     "UnknownConnectionError"}

\* What one request of the transport handle can end with.
Outcomes == {Ok} \cup {ApiError(c) : c \in Codes} \cup {Exc(c) : c \in TransportClasses}

Ret(v) == [t |-> "ret", v |-> v, e |-> Exc(None)]

Raise(e) == [t |-> "exc", v |-> None, e |-> e]

Frame(k, fn, pc) == [k |-> k, fn |-> fn, pc |-> pc, routes |-> <<>>, fetched |-> FALSE]

Idle == alive /\ stack = <<>>

NoSession == [login |-> None, api_url |-> <<"none", "none">>]

\* Session.dump(): the tokens of the login held, and the api_url in use
Dump(login, api_url) == [login |-> login, api_url |-> api_url]

EmptyKeyring == [user |-> None, session |-> NoSession, vpn |-> None]

EmptyCache == [r \in Resources |-> [obj |-> FALSE, nf |-> FALSE]]

NoSnapshot == [user |-> None, session |-> NoSession]

Snapshot == [user |-> keyring.user, session |-> keyring.session]

\* No log is kept; a log is kept and is empty.
NoLog == [on |-> FALSE, seq |-> <<>>]

EmptyLog == [on |-> TRUE, seq |-> <<>>]

\* The objects that have a timestamp and a next fetch time: the server list has
\* two of each, for the logicals and for the loads.
Timed == {"logicals", "loads", "clientconfig", "streaming", "icons"}

\* Times are seconds; a next fetch time is kept in units of 1 / Scale seconds.
Unset == -1

NoWindow == [r \in Timed |-> [timestamp |-> 0, next_fetch |-> Unset]]

NewOp(name, user) ==
    [name |-> name, user |-> user, status |-> "running", exc |-> None,
     at |-> "-", prev |-> "-"]

(***************************************************************************)
(* The state a step works on, and the stack                                *)
(***************************************************************************)
St ==
    [keyring |-> keyring, proton_user |-> proton_user, api_login |-> api_login,
     url |-> url, tls |-> tls_verification, vpn_data |-> vpn_data, cache |-> cache,
     corrupt |-> corrupt,
     alt |-> alternative_url, stack |-> stack, op |-> op, ev |-> ev, faults |-> faults,
     log |-> log]

Install(m) ==
    /\ keyring' = m.keyring
    /\ proton_user' = m.proton_user
    /\ api_login' = m.api_login
    /\ url' = m.url
    /\ tls_verification' = m.tls
    /\ vpn_data' = m.vpn_data
    /\ cache' = m.cache
    /\ corrupt' = m.corrupt
    /\ alternative_url' = m.alt
    /\ stack' = m.stack
    /\ op' = m.op
    /\ ev' = m.ev
    /\ log' = m.log
    /\ faults' = IF m.stack = <<>> THEN 0 ELSE m.faults
    /\ pre' = IF m.stack = <<>> THEN NoSnapshot ELSE pre
    /\ UNCHANGED <<alive, alternative_routing, killswitch, killswitch_obj, window>>

TopOf(m) == m.stack[Len(m.stack)]

Pop(m) == [m EXCEPT !.stack = SubSeq(@, 1, Len(@) - 1)]

Push(m, f) == [m EXCEPT !.stack = Append(@, f)]

Goto(m, pc) == [m EXCEPT !.stack[Len(m.stack)].pc = pc]

\* The frames of the public operation itself: up to the body its decorator runs.
Own(stk) ==
    \A i \in 1..Len(stk) : stk[i].k = "call" => Len(stk) <= i + 1

Note(m, e) == IF Own(m.stack) THEN [m EXCEPT !.ev = @ \cup {e}] ELSE m

\* How the function on top of stk came to run: called by the decorator for the
\* endpoint it selected ("primary") or for a route ("route"), or by the 401 handler
\* through _call_without_error_handling ("retry").
Via(stk) ==
    IF Len(stk) < 2 \/ stk[Len(stk)].k # "body"
    THEN "-"
    ELSE IF stk[Len(stk) - 1].k = "h401" THEN "retry" ELSE stk[Len(stk) - 1].pc

\* How many 401 handlers are at work in stk.
Nest(stk) == Cardinality({i \in 1..Len(stk) : stk[i].k = "h401"})

\* The log entry for what the frame on top of m does: k is what is done, x what
\* it is done with or answered.
Logged(m, k, x) ==
    IF m.log.on
    THEN [m EXCEPT !.log.seq = Append(@, [k |-> k, fn |-> TopOf(m).fn, via |-> Via(m.stack),
                                          nest |-> Nest(m.stack), url |-> m.url,
                                          tls |-> m.tls, x |-> x])]
    ELSE m

\* What a request may be answered with, and the failure counted.
Answers == IF faults < MaxFaults THEN Outcomes ELSE {Ok}

Charge(m, o) == IF o = Ok THEN m ELSE [m EXCEPT !.faults = @ + 1]

\* The function on top of m sends its request, which is answered with o.
Sent(m, o) == Logged(Charge(m, o), "request", o)

At(k, fns, pcs) ==
    /\ alive
    /\ stack # <<>>
    /\ stack[Len(stack)].k = k
    /\ stack[Len(stack)].fn \in fns
    /\ stack[Len(stack)].pc \in pcs

(***************************************************************************)
(* ErrorStrategy: the decorator around logout, refresh, authenticate and   *)
(* every API call                                                          *)
(***************************************************************************)
\* Which subclass of ErrorStrategy decorates the function.
Variant(fn) ==
    CASE fn = "logout" -> "Logout"
      [] fn = "refresh" -> "Refresh"
      [] fn = "authenticate" -> "Authenticate"
      [] OTHER -> "NormalCall"

\* The attributes named *handle_* that an instance of the subclass has.
HandlerAttrs(variant) ==
    {"handle_429", "handle_503"} \cup
    CASE variant = "Logout" -> {"_handle_401"}
      [] variant = "NormalCall" ->
            {"_handle_401", "_handle_403", "_handle_5002", "_handle_5003", "_handle_10013"}
      [] variant = "Authenticate" -> {"_handle_401", "_handle_403", "_handle_8002"}
      [] OTHER -> {}

\* f'_handle_{e.code}'
HandlerName(code) ==
    CASE code = 401 -> "_handle_401"
      [] code = 403 -> "_handle_403"
      [] code = 429 -> "_handle_429"
      [] code = 503 -> "_handle_503"
      [] code = 5002 -> "_handle_5002"
      [] code = 5003 -> "_handle_5003"
      [] code = 8002 -> "_handle_8002"
      [] code = 10013 -> "_handle_10013"
      [] OTHER -> "_handle_500"

\* Handlers of which the 401 handler of a normal call only ignores the error.
HandlerBodyIgnores401(variant, name) ==
    CASE name = "_handle_401" -> [act |-> "pass", e |-> Exc(None)]
      [] name = "_handle_403" /\ variant = "Authenticate" -> [act |-> "pass", e |-> Exc(None)]
      [] name = "_handle_403" -> [act |-> "raise", e |-> Exc("API403Error")]
      [] name = "_handle_5002" -> [act |-> "raise", e |-> Exc("API5002Error")]
      [] name = "_handle_5003" -> [act |-> "raise", e |-> Exc("API5003Error")]
      [] name = "_handle_10013" -> [act |-> "raise", e |-> Exc("API10013Error")]
      [] name = "_handle_8002" -> [act |-> "raise", e |-> Exc("API8002Error")]
      [] OTHER -> [act |-> "sleep_retry", e |-> Exc(None)]

\* What the handler found under that name does.
HandlerBody(variant, name) ==
    CASE name = "_handle_401" /\ variant = "NormalCall" -> [act |-> "refresh_retry", e |-> Exc(None)]
      [] name = "_handle_401" -> [act |-> "pass", e |-> Exc(None)]
      [] name = "_handle_403" /\ variant = "Authenticate" -> [act |-> "pass", e |-> Exc(None)]
      [] name = "_handle_403" -> [act |-> "raise", e |-> Exc("API403Error")]
      [] name = "_handle_5002" -> [act |-> "raise", e |-> Exc("API5002Error")]
      [] name = "_handle_5003" -> [act |-> "raise", e |-> Exc("API5003Error")]
      [] name = "_handle_10013" -> [act |-> "raise", e |-> Exc("API10013Error")]
      [] name = "_handle_8002" -> [act |-> "raise", e |-> Exc("API8002Error")]
      [] OTHER -> [act |-> "sleep_retry", e |-> Exc(None)]

\* An error handling without handlers: every error is raised again as it came.
HandleApiErrorUnmapped(variant, e) == [act |-> "raise", e |-> e]

\* __handle_api_error: the handler named after the code if there is one, else the
\* error is raised again as it came (_remap_protonerror is a bare raise).
HandleApiError(variant, e) ==
    IF HandlerName(e.code) \in HandlerAttrs(variant)
    THEN HandlerBody(variant, HandlerName(e.code))
    ELSE [act |-> "raise", e |-> e]

\* The except clauses of lines 58-80, in their order: UnknownConnectionError is a
\* ProtonNetworkError in proton.exceptions, so the clause before its own takes it.
IsNetworkError(e) == e.cls \in TransportClasses

\* A decorator that raises APIError for every network error.
NetworkErrorRaisedAlike(e) == Exc("APIError")

\* The error raised for a network error when alternative routing is not enabled.
NetworkErrorRaised(e) ==
    CASE e.cls = "ConnectionTimeOutError" -> Exc("APITimeoutError")
      [] e.cls = "TLSPinningError" -> Exc("InsecureConnection")
      [] OTHER -> Exc("APIError")

\* The errors a route may fail with for the next one to be tried (line 107), which
\* are also the ones is_api_reacheable answers False for (line 308).
IsUnreachable(e) ==
    e.cls \in {"NewConnectionError", "ConnectionTimeOutError", "TLSPinningError"}

NetworkConnectionError == Exc("NetworkConnectionError")

BodyStart(fn) ==
    CASE fn = "logout" -> "del_vpn"
      [] fn = "refresh" -> "api_refresh"
      [] fn = "authenticate" -> "api_authenticate"
      [] fn = "vpn_fetch" -> "api_request"
      [] OTHER -> "check"

\* "if not result: raise NetworkConnectionError(...)  return result"
Finish(result) == IF result = None THEN Raise(NetworkConnectionError) ELSE Ret(result)

\* A selection that does not look at the alternative url.
SelectUrlKeepsCurrent(try_original, current) == IF try_original THEN API_URL ELSE current

\* A selection that goes back to the primary url when no alternative url applies.
SelectUrlResets(try_original, current) ==
    IF try_original
    THEN API_URL
    ELSE IF alternative_routing /\ alternative_url # API_URL
         THEN alternative_url
         ELSE API_URL

\* Lines 32-40: the endpoint the attempt goes to.
SelectUrl(try_original, current) ==
    IF try_original
    THEN API_URL
    ELSE IF alternative_routing /\ alternative_url # API_URL
         THEN alternative_url
         ELSE current

\* session._tls_verification = False if session.url != API_URL else True
TlsFor(u) == (u = API_URL)

\* The properties authenticate reads in lines 462-466, in order.
WarmUp == <<"servers", "clientconfig", "streaming", "streaming_icons", "_vpn_data">>

IndexOf(seq, x) == CHOOSE i \in 1..Len(seq) : seq[i] = x

\* A loop that takes the routes from the end of the list.
NextRouteFromEnd(m, f) ==
    [Note(m, "route") EXCEPT !.url = HttpsUrl(f.routes[Len(f.routes)]),
              !.tls = FALSE,
              !.stack = Append(SubSeq(@, 1, Len(@) - 1) \o
                                 <<[f EXCEPT !.pc = "route",
                                             !.routes = SubSeq(f.routes, 1, Len(f.routes) - 1)]>>,
                               Frame("body", f.fn, BodyStart(f.fn)))]

\* The for loop of lines 95-106 on the frame f of the decorator: the next route,
\* if any, is tried without TLS verification; none left is the end of the call.
NextRoute(m, f) ==
    [Note(m, "route") EXCEPT !.url = HttpsUrl(Head(f.routes)),
              !.tls = FALSE,
              !.stack = Append(SubSeq(@, 1, Len(@) - 1) \o
                                 <<[f EXCEPT !.pc = "route", !.routes = Tail(f.routes)]>>,
                               Frame("body", f.fn, BodyStart(f.fn)))]

\* An API error e reached the decorator frame f on top of m (lines 55-57, 115-122):
\* what is left to do is a signal for the caller, or the 401 handler of a normal
\* call, which starts with session.refresh().
ApiErrorStep(m, f, e) ==
    LET h == HandleApiError(Variant(f.fn), e)
        m1 == IF e.code = 429 THEN Note(m, "got_429") ELSE m
    IN  CASE h.act = "pass" -> [m |-> Note(m1, "ignored"), s |-> Raise(NetworkConnectionError)]
          [] h.act = "refresh_retry" ->
                [m |-> Push(Push(Goto(m1, IF f.pc = "primary" THEN "primary_h" ELSE "route_h"),
                                 Frame("h401", f.fn, "refresh")),
                            Frame("call", "refresh", "select")),
                 s |-> Ret("wait")]
          [] h.act = "sleep_retry" ->
                \* handle_429 / handle_503: time.sleep, then _call_original_function,
                \* which reads self.__func__
                [m |-> Note(m1, "sleep"), s |-> Raise(Exc("AttributeError"))]
          [] OTHER -> [m |-> m1, s |-> Raise(h.e)]

(***************************************************************************)
(* The frame on top of m.stack gets the signal s (a value returned to it or *)
(* an exception raised into it) and the code runs on to the next point     *)
(* where it waits.                                                         *)
(***************************************************************************)
\* A decorator that returns what the handler returned.
HandlerReturnedKept(s) == IF s.t = "ret" THEN Finish(s.v) ELSE s

\* Lines 57 and 122, then 137-138: the value of a handler is dropped, so result
\* is still None after it; its exception is not caught.
HandlerReturned(s) == IF s.t = "ret" THEN Finish(None) ELSE s

\* "except: pass" in a property: what update_*_if_needed raised goes no further.
Swallowed(m, s) == IF s.t = "exc" THEN Logged(m, "swallowed", s.e.cls) ELSE m

RECURSIVE Unwind(_, _)
Unwind(m, s) ==
    IF m.stack = <<>>
    THEN [m EXCEPT !.op.status = IF s.t = "ret" THEN "ok" ELSE "raised",
                   !.op.exc = s.e.cls]
    ELSE
    LET f == TopOf(m)
        p == Pop(m)
    IN  CASE f.k = "call" /\ f.pc = "primary" /\ s.t = "ret" ->
                \* lines 51-54, 137-140
                Unwind([p EXCEPT !.tls = TlsFor(m.url)], Finish(s.v))
          [] f.k = "call" /\ f.pc = "route" /\ s.t = "ret" ->
                \* lines 130-140
                Unwind([p EXCEPT !.alt = m.url], Finish(s.v))
          [] f.k = "call" /\ f.pc \in {"primary_h", "route_h"} ->
                Unwind(p, HandlerReturned(s))
          [] f.k = "call" /\ f.pc \in {"primary", "route"} /\ s.e.cls = "ProtonAPIError" ->
                LET r == ApiErrorStep(m, f, s.e)
                IN  IF r.s.t = "ret" THEN r.m ELSE Unwind(Pop(r.m), r.s)
          [] f.k = "call" /\ f.pc = "primary" /\ IsNetworkError(s.e) ->
                \* lines 58-77
                IF alternative_routing
                THEN Goto(m, "lookup")
                ELSE Unwind(p, Raise(NetworkErrorRaised(s.e)))
          [] f.k = "call" /\ f.pc = "primary" ->
                Unwind(p, s)
          [] f.k = "call" /\ f.pc = "route" /\ IsUnreachable(s.e) ->
                \* lines 107-114
                IF f.routes = <<>> THEN Unwind(p, Finish(None)) ELSE NextRoute(m, f)
          [] f.k = "call" /\ f.pc = "route" ->
                \* lines 123-129
                Unwind(p, Raise(Exc("Exception")))
          [] f.k = "h401" /\ f.pc = "refresh" /\ s.t = "ret" ->
                \* lines 208-210: _call_without_error_handling
                Push(Goto(m, "retry"), Frame("body", f.fn, BodyStart(f.fn)))
          [] f.k = "h401" ->
                Unwind(p, s)
          [] f.k = "body" /\ f.fn = "authenticate" /\ s.t = "ret" ->
                \* lines 462-468
                LET i == IndexOf(WarmUp, f.pc)
                IN  IF i < Len(WarmUp)
                    THEN Push(Goto(m, WarmUp[i + 1]), Frame("acc", WarmUp[i + 1], "init"))
                    ELSE Unwind(p, Ret("True"))
          [] f.k = "acc" /\ f.pc = "update" /\ f.fn = "streaming" ->
                \* lines 780-785
                Push(Goto(Swallowed(m, s), "icons"), Frame("acc", "streaming_icons", "init"))
          [] f.k = "acc" /\ f.pc = "update" ->
                \* "except: pass", then the object is returned
                Unwind(Pop(Swallowed(m, s)), Ret("obj"))
          [] f.k = "acc" /\ s.t = "ret" ->
                Unwind(p, Ret("obj"))
          [] OTHER ->
                Unwind(p, s)

\* A frame is left with the signal s.
Leave(m, s) == Unwind(Pop(m), s)

(***************************************************************************)
(* APISession.__init__ and __keyring_load_session                          *)
(***************************************************************************)
\* __keyring_clear_session
KeyringClearSession(k) == [k EXCEPT !.session = NoSession, !.user = None]

\* __keyring_clear_vpn_data
KeyringClearVpnData(k) == [k EXCEPT !.vpn = None]

\* The test of lines 340-345: the stored session is for another API.
WrongSessionUrl(stored_url, api_url, alt_url) ==
    /\ stored_url # api_url
    /\ stored_url # alt_url /\ alt_url # API_URL

\* A load that leaves the keyring as it finds it.
LoadKeyringKeeps(k) == k

\* The keyring after __keyring_load_session (lines 321-337).
LoadKeyring(k) ==
    IF k.user = None \/ k.session = NoSession
    THEN KeyringClearSession(k)
    ELSE k

\* A load that adopts the stored user name whether or not a session is stored.
LoadAdoptsUserOnly(k, alt_url) == k.user # None

\* Whether __keyring_load_session adopts the stored session (lines 321-364).
LoadAdopts(k, alt_url) ==
    /\ k.user # None
    /\ k.session # NoSession
    /\ ~WrongSessionUrl(k.session.api_url, API_URL, alt_url)

Init ==
    /\ alive = TRUE
    /\ keyring = EmptyKeyring
    /\ proton_user = None
    /\ api_login = None
    /\ url = API_URL
    /\ tls_verification = TRUE
    /\ vpn_data = None
    /\ cache = EmptyCache
    /\ corrupt = {}
    /\ alternative_url = API_URL
    /\ alternative_routing \in BOOLEAN
    /\ killswitch \in {"DISABLED", "HARD"}
    /\ killswitch_obj = None
    /\ stack = <<>>
    /\ op = [NewOp("init", None) EXCEPT !.status = "ok"]
    /\ pre = NoSnapshot
    /\ ev = {}
    /\ faults = 0
    /\ log = NoLog
    /\ window = NoWindow

\* The process ends (exit, crash, kill) wherever it is; everything in memory is lost.
Kill ==
    /\ alive
    /\ alive' = FALSE
    /\ stack' = <<>>
    /\ op' = IF stack = <<>>
             THEN op
             ELSE [op EXCEPT !.status = "killed",
                             !.at = IF Len(stack) >= 2 THEN stack[2].pc ELSE "select"]
    /\ proton_user' = None
    /\ api_login' = None
    /\ url' = API_URL
    /\ tls_verification' = TRUE
    /\ vpn_data' = None
    /\ cache' = EmptyCache
    /\ faults' = 0
    /\ UNCHANGED <<keyring, corrupt, alternative_url, alternative_routing, killswitch, killswitch_obj,
                   pre, ev, log, window>>

\* While no process runs, an entry of the keyring is removed by its owner.
KeyringEntryLost ==
    /\ ~alive
    /\ \/ keyring.user # None /\ keyring' = [keyring EXCEPT !.user = None]
       \/ keyring.session # NoSession /\ keyring' = [keyring EXCEPT !.session = NoSession]
    /\ op' = [NewOp("lost", None) EXCEPT !.status = "ok"]
    /\ pre' = NoSnapshot
    /\ ev' = {}
    /\ UNCHANGED <<alive, proton_user, api_login, url, tls_verification, vpn_data, cache,
                   corrupt, alternative_url, alternative_routing, killswitch, killswitch_obj, stack, faults,
                   log, window>>

\* What __keyring_load_session found: entries of which one is missing, a session
\* it adopted, a session for another API, or nothing.
LoadFound(k, alt_url) ==
    CASE (k.user = None) # (k.session = NoSession) -> {"orphan"}
      [] LoadAdopts(k, alt_url) -> {"adopted"}
      [] k.user # None -> {"foreign"}
      [] OTHER -> {}

\* A new process builds its APISession: __init__, which loads the keyring.  The
\* alternative url api_metadata knows may or may not have survived.
Construct ==
    /\ ~alive
    /\ alive' = TRUE
    /\ \E alt \in {alternative_url, API_URL} :
        /\ alternative_url' = alt
        /\ ev' = LoadFound(keyring, alt)
        /\ keyring' = LoadKeyring(keyring)
        /\ IF LoadAdopts(keyring, alt)
           THEN /\ proton_user' = keyring.user
                /\ api_login' = keyring.session.login
                /\ url' = keyring.session.api_url
           ELSE /\ proton_user' = None
                /\ api_login' = None
                /\ url' = API_URL
    /\ tls_verification' = TRUE
    /\ vpn_data' = None
    /\ cache' = EmptyCache
    /\ op' = [NewOp("init", None) EXCEPT !.status = "ok",
                                         !.prev = IF op.status = "killed" THEN op.name ELSE "-"]
    /\ pre' = NoSnapshot
    /\ UNCHANGED <<corrupt, alternative_routing, killswitch, killswitch_obj, stack, faults, log, window>>

(***************************************************************************)
(* The decorator's own steps                                               *)
(***************************************************************************)
AnyFn == {"logout", "refresh", "authenticate", "vpn_fetch", "update_servers",
          "update_client_config", "update_streaming"}

\* Lines 30-51: the endpoint is chosen, TLS verification set for it, and the
\* function called.  should_try_original_url() is the answer of api_metadata.
StrategySelect ==
    /\ At("call", AnyFn, {"select"})
    /\ \E try_original \in BOOLEAN :
        LET f == TopOf(St)
            u == SelectUrl(try_original, url)
        IN  Install(Push(Goto(Logged([St EXCEPT !.url = u, !.tls = TlsFor(u)],
                                     "select", try_original),
                              "primary"),
                         Frame("body", f.fn, BodyStart(f.fn))))

\* What the request of is_api_reacheable() may end with: an answer, one of the
\* three errors it returns False for, or an error it lets through, of the API
\* or of the transport.
ProbeOutcomes ==
    {Ok, ApiError(500)} \cup {Exc(c) : c \in TransportClasses}

\* A decorator that tries the routes whatever is_api_reacheable() answers.
StrategyLookupUnprobed ==
    /\ At("call", AnyFn, {"lookup"})
    /\ \E fetched \in BOOLEAN, o \in ProbeOutcomes :
        \E routes \in IF fetched THEN RouteLists ELSE {<<>>} :
            LET m == Logged(Logged(Note(St, "lookup"), "lookup",
                                   [fetched |-> fetched, routes |-> routes]),
                            "probe", o)
                f == [TopOf(St) EXCEPT !.routes = routes, !.fetched = fetched]
            IN  Install(CASE fetched /\ routes # <<>> -> NextRoute(m, f)
                          [] IsUnreachable(o) \/ o = Ok -> Leave(m, Finish(None))
                          [] OTHER -> Leave(m, Raise(o)))

\* Lines 82-95: session._get_alternative_routes(), any failure of which is
\* swallowed, then is_api_reacheable() (lines 302-312), then the loop or the end.
StrategyLookup ==
    /\ At("call", AnyFn, {"lookup"})
    /\ \E fetched \in BOOLEAN, o \in ProbeOutcomes :
        \E routes \in IF fetched THEN RouteLists ELSE {<<>>} :
            LET m == Logged(Logged(Note(St, "lookup"), "lookup",
                                   [fetched |-> fetched, routes |-> routes]),
                            "probe", o)
                f == [TopOf(St) EXCEPT !.routes = routes, !.fetched = fetched]
            IN  Install(CASE IsUnreachable(o) /\ fetched /\ routes # <<>> -> NextRoute(m, f)
                          [] IsUnreachable(o) \/ o = Ok -> Leave(m, Finish(None))
                          [] OTHER -> Leave(m, Raise(o)))

(***************************************************************************)
(* The decorated functions                                                 *)
(***************************************************************************)
\* A logout that deletes the session entry before the vpn entry.
LogoutClearedSessionFirst(k, pc) ==
    CASE pc = "del_vpn" -> [k EXCEPT !.session = NoSession]
      [] pc = "del_session" -> [k EXCEPT !.vpn = None]
      [] OTHER -> [k EXCEPT !.user = None]

\* logout, lines 386-387: the keyring entry deleted at each of the three steps.
LogoutCleared(k, pc) ==
    CASE pc = "del_vpn" -> KeyringClearVpnData(k)
      [] pc = "del_session" -> [k EXCEPT !.session = NoSession]
      [] OTHER -> [k EXCEPT !.user = None]

LogoutNext(pc) ==
    CASE pc = "del_vpn" -> "del_session"
      [] pc = "del_session" -> "del_user"
      [] OTHER -> "api_logout"

LogoutClearKeyring ==
    /\ At("body", {"logout"}, {"del_vpn", "del_session", "del_user"})
    /\ LET pc == TopOf(St).pc
       IN  Install(Goto([St EXCEPT !.keyring = LogoutCleared(keyring, pc)], LogoutNext(pc)))

\* logout, lines 390-418: the memory is reset, the API is told (whatever it answers
\* is swallowed), the cache files are removed (among them the file api_metadata
\* keeps) and a new transport session is made.
LogoutResetKeepsIdentity(m, alt) ==
    [m EXCEPT !.vpn_data = None,
              !.cache["logicals"].obj = FALSE,
              !.api_login = None,
              !.url = API_URL,
              !.tls = TRUE,
              !.corrupt = {},
              !.alt = alt]

\* A logout that forgets every cached object and its next fetch time.
LogoutResetClearsCache(m, alt) ==
    [m EXCEPT !.proton_user = None,
              !.vpn_data = None,
              !.cache = EmptyCache,
              !.api_login = None,
              !.url = API_URL,
              !.tls = TRUE,
              !.corrupt = {},
              !.alt = alt]

LogoutReset(m, alt) ==
    [m EXCEPT !.proton_user = None,
              !.vpn_data = None,
              !.cache["logicals"].obj = FALSE,
              !.api_login = None,
              !.url = API_URL,
              !.tls = TRUE,
              !.corrupt = {},
              !.alt = alt]

LogoutFinish ==
    /\ At("body", {"logout"}, {"api_logout"})
    /\ \E o \in Answers, alt \in {alternative_url, API_URL} :
        Install(Leave(LogoutReset(IF o = Ok THEN Sent(St, o) ELSE Note(Sent(St, o), "api_failed"),
                                  alt),
                      Ret("True")))

\* A refresh that drops the vpn entry when it stores the session data.
RefreshStoredDropsVpn(k, login, api_url) ==
    [k EXCEPT !.session = Dump(login, api_url), !.vpn = None]

\* refresh, lines 426-428: the session data is stored again.
RefreshStored(k, login, api_url) == [k EXCEPT !.session = Dump(login, api_url)]

\* A refresh without ensure_valid().
RefreshUnchecked ==
    /\ At("body", {"refresh"}, {"api_refresh"})
    /\ \E o \in Answers :
        Install(IF o = Ok
                THEN Leave(Note(Note([St EXCEPT !.keyring = RefreshStored(keyring, api_login, url)],
                                     "api_refresh"), "refresh_ok"),
                           Ret("True"))
                ELSE Leave(Note(Charge(St, o), "api_refresh"), Raise(o)))

\* refresh, lines 422-430.
Refresh ==
    /\ At("body", {"refresh"}, {"api_refresh"})
    /\ \E o \in IF proton_user = None THEN {Ok} ELSE Answers :
        Install(IF proton_user = None
                THEN Leave(St, Raise(Exc("APISessionIsNotValidError")))
                ELSE IF o = Ok
                THEN Leave(Note(Note([Sent(St, o) EXCEPT
                                          !.keyring = RefreshStored(keyring, api_login, url)],
                                     "api_refresh"), "refresh_ok"),
                           Ret("True"))
                ELSE Leave(Note(Sent(St, o), "api_refresh"), Raise(o)))

\* authenticate, lines 442-453: the session data is stored, dumped with the url
\* set to API_URL for the time of the dump.
AuthenticateStored(k, username) == [k EXCEPT !.session = Dump(username, API_URL)]

\* An authenticate that stores the session data whatever the login is answered.
AuthenticateLoginStoresFirst ==
    /\ At("body", {"authenticate"}, {"api_authenticate"})
    /\ \E o \in Answers :
        LET m == [St EXCEPT !.keyring = AuthenticateStored(keyring, op.user)]
        IN  Install(IF o = Ok
                    THEN Goto(Note([m EXCEPT !.api_login = op.user], "login_ok"), "set_user")
                    ELSE Leave(Charge(m, o), Raise(o)))

\* authenticate, lines 440-453.
AuthenticateLogin ==
    /\ At("body", {"authenticate"}, {"api_authenticate"})
    /\ \E o \in Answers :
        Install(IF o = Ok
                THEN Goto(Note([Sent(St, o) EXCEPT
                                    !.api_login = op.user,
                                    !.keyring = AuthenticateStored(keyring, op.user)],
                               "login_ok"),
                          "set_user")
                ELSE Leave(Sent(St, o), Raise(o)))

\* authenticate, lines 455-457: the user name is stored.
AuthenticateStoredUser(k, username) == [k EXCEPT !.user = username]

\* authenticate, lines 455-463: ... and set in the class; the first property is read.
AuthenticateSetUser ==
    /\ At("body", {"authenticate"}, {"set_user"})
    /\ Install(Push(Goto([St EXCEPT !.keyring = AuthenticateStoredUser(keyring, op.user),
                                    !.proton_user = op.user],
                         WarmUp[1]),
                    Frame("acc", WarmUp[1], "init")))

\* __vpn_data_fetch_from_api, lines 526-540.
VpnDataFetch ==
    /\ At("body", {"vpn_fetch"}, {"api_request"})
    /\ \E o \in IF proton_user = None THEN {Ok} ELSE Answers :
        Install(IF proton_user = None
                THEN Leave(St, Raise(Exc("APISessionIsNotValidError")))
                ELSE IF o = Ok
                THEN Leave([Sent(St, o) EXCEPT !.vpn_data = "vpn", !.keyring.vpn = "vpn"],
                           Ret("True"))
                ELSE Leave(Sent(St, o), Raise(o)))

Updaters == {"update_servers", "update_client_config", "update_streaming"}

ResourceOf(fn) ==
    CASE fn \in {"update_servers", "servers"} -> "logicals"
      [] fn \in {"update_client_config", "clientconfig"} -> "clientconfig"
      [] fn \in {"update_streaming", "streaming"} -> "streaming"
      [] OTHER -> "icons"

UpdaterOf(acc) ==
    CASE acc = "servers" -> "update_servers"
      [] acc = "clientconfig" -> "update_client_config"
      [] OTHER -> "update_streaming"

\* A write of the cache file whose failure is raised.
WriteCacheOrRaise(m, res, written) ==
    IF written
    THEN [m |-> [Logged(m, "saved", res) EXCEPT !.corrupt = @ \ {res}], s |-> Ret("True")]
    ELSE [m |-> m, s |-> Raise(Exc("OSError"))]

\* Lines 626-637, 689-699, 749-759: the object is written to its cache file, which
\* may fail (written = FALSE) and is then only logged; the update returns True.
WriteCache(m, res, written) ==
    IF written
    THEN [m |-> [Logged(m, "saved", res) EXCEPT !.corrupt = @ \ {res}], s |-> Ret("True")]
    ELSE [m |-> m, s |-> Ret("True")]

\* An update that does not look at the kill switch.
UpdateIfNeededUnguarded ==
    /\ At("body", Updaters, {"check"})
    /\ \E o \in {Ok, Exc("not due")} \cup Answers, written \in BOOLEAN :
        Install(CASE ~cache[ResourceOf(TopOf(St).fn)].nf ->
                        Leave(St, Raise(Exc("AttributeError")))
                  [] o = Exc("not due") -> Leave(St, Ret("True"))
                  [] o = Ok ->
                        LET r == WriteCache(Logged(Sent(St, o), "body",
                                                   ResourceOf(TopOf(St).fn)),
                                            ResourceOf(TopOf(St).fn), written)
                        IN  Leave(r.m, r.s)
                  [] OTHER -> Leave(Sent(St, o), Raise(o)))

\* update_servers_if_needed, update_client_config_if_needed and
\* update_streaming_data_if_needed (force is False in every call of this class):
\* nothing under the hard kill switch, else a fetch when the clock has passed
\* __next_fetch_*, an attribute that exists only once it has been computed.
UpdateIfNeeded ==
    /\ At("body", Updaters, {"check"})
    /\ \E o \in {Ok, Exc("not due")} \cup Answers, written \in BOOLEAN :
        Install(CASE killswitch = "HARD" -> Leave(St, Ret(None))
                  [] killswitch # "HARD" /\ ~cache[ResourceOf(TopOf(St).fn)].nf ->
                        Leave(St, Raise(Exc("AttributeError")))
                  [] o = Exc("not due") -> Leave(St, Ret("True"))
                  [] o = Ok ->
                        \* the answer replaces the body of the object, then the
                        \* object is written to the cache file
                        LET r == WriteCache(Logged(Sent(St, o), "body",
                                                   ResourceOf(TopOf(St).fn)),
                                            ResourceOf(TopOf(St).fn), written)
                        IN  Leave(r.m, r.s)
                  [] OTHER -> Leave(Sent(St, o), Raise(o)))

(***************************************************************************)
(* The caching properties                                                  *)
(***************************************************************************)
\* The object a property makes on first use: created, loaded from its file (only
\* FileNotFoundError is caught), then its next fetch time is computed.
Created(c, res, bad) ==
    IF c[res].obj
    THEN c
    ELSE [c EXCEPT ![res] = [obj |-> TRUE, nf |-> IF bad THEN @.nf ELSE TRUE]]

\* servers, clientconfig, streaming: lines 641-660, 703-721, 763-781.
AccessorInit ==
    /\ At("acc", {"servers", "clientconfig", "streaming"}, {"init"})
    /\ LET f == TopOf(St)
           bad == ResourceOf(f.fn) \in corrupt
           m == [St EXCEPT !.cache = Created(cache, ResourceOf(f.fn), bad)]
       IN  Install(IF ~cache[ResourceOf(f.fn)].obj /\ bad
                   THEN Leave(m, Raise(Exc("FileError")))
                   ELSE Push(Goto(m, "update"), Frame("call", UpdaterOf(f.fn), "select")))

\* streaming_icons, lines 813-826.
AccessorIcons ==
    /\ At("acc", {"streaming_icons"}, {"init"})
    /\ LET bad == "icons" \in corrupt
           m == [St EXCEPT !.cache = Created(cache, "icons", bad)]
       IN  Install(IF ~cache["icons"].obj /\ bad
                   THEN Leave(m, Raise(Exc("FileError")))
                   ELSE Goto(m, "update"))

\* streaming_icons, lines 828-833, and update_streaming_icons_if_needed, lines
\* 789-809, which is not decorated: nothing under the hard kill switch, else the
\* icons are updated when they are due; whatever is raised is swallowed.
UpdateIconsIfNeeded ==
    /\ At("acc", {"streaming_icons"}, {"update"})
    /\ \E o \in {Ok, Exc("not due")} \cup (Answers \cap {Exc("UnknownConnectionError")}) :
        Install(CASE killswitch = "HARD" -> Leave(St, Ret("obj"))
                  [] killswitch # "HARD" /\ ~cache["icons"].nf ->
                        Leave(Swallowed(St, Raise(Exc("AttributeError"))), Ret("obj"))
                  [] o = Exc("not due") -> Leave(St, Ret("obj"))
                  [] o = Ok ->
                        \* the icons are replaced and written to the cache file
                        Leave([Logged(Sent(St, o), "body", "icons") EXCEPT
                                  !.corrupt = @ \ {"icons"}],
                              Ret("obj"))
                  [] OTHER -> Leave(Swallowed(Sent(St, o), Raise(o)), Ret("obj")))

\* _vpn_data, lines 550-560.
AccessorVpnData ==
    /\ At("acc", {"_vpn_data"}, {"init"})
    /\ Install(CASE vpn_data # None -> Leave(St, Ret("obj"))
                 [] vpn_data = None /\ keyring.vpn # None ->
                        Leave([St EXCEPT !.vpn_data = keyring.vpn], Ret("obj"))
                 [] OTHER -> Push(Goto(St, "fetch"), Frame("call", "vpn_fetch", "select")))

(***************************************************************************)
(* The public operations                                                   *)
(***************************************************************************)
Begin(name, user, frame) ==
    /\ Idle
    /\ stack' = <<frame>>
    /\ op' = NewOp(name, user)
    /\ pre' = IF name = "logout" THEN Snapshot ELSE NoSnapshot
    /\ ev' = IF op.name = name /\ op.status = "ok" THEN {"again"} ELSE {}
    /\ faults' = 0
    /\ log' = [log EXCEPT !.seq = <<>>]
    /\ UNCHANGED <<alive, keyring, proton_user, api_login, url, tls_verification,
                   vpn_data, cache, corrupt, alternative_url, alternative_routing,
                   killswitch, killswitch_obj, window>>

CallLogout == Begin("logout", None, Frame("call", "logout", "select"))

CallRefresh == Begin("refresh", None, Frame("call", "refresh", "select"))

CallAuthenticate ==
    \E u \in Users : Begin("authenticate", u, Frame("call", "authenticate", "select"))

CallProperty ==
    \E p \in {WarmUp[i] : i \in 1..Len(WarmUp)} : Begin(p, None, Frame("acc", p, "init"))

\* A cache file is damaged on disk between two operations.
CorruptFile ==
    /\ Idle
    /\ \E res \in Resources \ corrupt : corrupt' = corrupt \cup {res}
    /\ UNCHANGED <<alive, keyring, proton_user, api_login, url, tls_verification,
                   vpn_data, cache, alternative_url, alternative_routing, killswitch, killswitch_obj,
                   stack, op, pre, ev, faults, log, window>>

\* The user switches alternative routing on or off between two operations.
SetAlternativeRouting ==
    /\ Idle
    /\ alternative_routing' = ~alternative_routing
    /\ UNCHANGED <<alive, keyring, proton_user, api_login, url, tls_verification,
                   vpn_data, cache, corrupt, alternative_url, killswitch, killswitch_obj, stack, op, pre,
                   ev, faults, log, window>>

Step ==
    \/ StrategySelect
    \/ StrategyLookup
    \/ LogoutClearKeyring
    \/ LogoutFinish
    \/ Refresh
    \/ AuthenticateLogin
    \/ AuthenticateSetUser
    \/ VpnDataFetch
    \/ UpdateIfNeeded
    \/ AccessorInit
    \/ AccessorIcons
    \/ UpdateIconsIfNeeded
    \/ AccessorVpnData

Next ==
    \/ Kill
    \/ KeyringEntryLost
    \/ Construct
    \/ CallLogout
    \/ CallRefresh
    \/ CallAuthenticate
    \/ SetAlternativeRouting
    \/ Step

Spec == Init /\ [][Next]_vars

(***************************************************************************)
(* The calls of a session loaded from the keyring, with a log of what each *)
(* call does                                                               *)
(***************************************************************************)
\* The state after APISession() has adopted the session the keyring holds; the
\* alternative url api_metadata knows is the primary one or one saved before.
InitCall ==
    /\ alive = TRUE
    /\ keyring = [user |-> "u1", session |-> Dump("u1", API_URL), vpn |-> None]
    /\ proton_user = "u1"
    /\ api_login = "u1"
    /\ url = API_URL
    /\ tls_verification = TRUE
    /\ vpn_data = None
    /\ cache = EmptyCache
    /\ corrupt = {}
    /\ alternative_url \in {API_URL, HttpsUrl("alt1")}
    /\ alternative_routing \in BOOLEAN
    /\ killswitch = "DISABLED"
    /\ killswitch_obj = None
    /\ stack = <<>>
    /\ op = [NewOp("init", None) EXCEPT !.status = "ok"]
    /\ pre = NoSnapshot
    /\ ev = {}
    /\ faults = 0
    /\ log = EmptyLog
    /\ window = NoWindow

\* The property _vpn_data is read.
CallVpnData == Begin("_vpn_data", None, Frame("acc", "_vpn_data", "init"))

NextCall ==
    \/ CallRefresh
    \/ CallVpnData
    \/ StrategySelect
    \/ StrategyLookup
    \/ Refresh
    \/ VpnDataFetch
    \/ AccessorVpnData

SpecCall == InitCall /\ [][NextCall]_vars

(***************************************************************************)
(* The cached objects of a session loaded from the keyring                 *)
(***************************************************************************)
InitCache ==
    /\ alive = TRUE
    /\ keyring = [user |-> "u1", session |-> Dump("u1", API_URL), vpn |-> None]
    /\ proton_user = "u1"
    /\ api_login = "u1"
    /\ url = API_URL
    /\ tls_verification = TRUE
    /\ vpn_data = None
    /\ cache = EmptyCache
    /\ corrupt \in {{}, {"clientconfig"}}
    /\ alternative_url = API_URL
    /\ alternative_routing \in BOOLEAN
    /\ killswitch \in {"DISABLED", "HARD"}
    /\ killswitch_obj = None
    /\ stack = <<>>
    /\ op = [NewOp("init", None) EXCEPT !.status = "ok"]
    /\ pre = NoSnapshot
    /\ ev = {}
    /\ faults = 0
    /\ log = EmptyLog
    /\ window = NoWindow

\* One of the four properties that cache an object is read, time and again.
CallAccessor ==
    \E p \in {"servers", "clientconfig", "streaming", "streaming_icons"} :
        /\ op.name \in {"init", p}
        /\ Begin(p, None, Frame("acc", p, "init"))

NextCache ==
    \/ CallAccessor
    \/ StrategySelect
    \/ StrategyLookup
    \/ Refresh
    \/ UpdateIfNeeded
    \/ AccessorInit
    \/ AccessorIcons
    \/ UpdateIconsIfNeeded

SpecCache == InitCache /\ [][NextCache]_vars

(***************************************************************************)
(* authenticate in a new process, with alternative routing not enabled and *)
(* under the hard kill switch, with a log of what it does                  *)
(***************************************************************************)
InitLogin ==
    /\ alive = TRUE
    /\ keyring = EmptyKeyring
    /\ proton_user = None
    /\ api_login = None
    /\ url = API_URL
    /\ tls_verification = TRUE
    /\ vpn_data = None
    /\ cache = EmptyCache
    /\ corrupt \in {{}, {"clientconfig"}}
    /\ alternative_url = API_URL
    /\ alternative_routing = FALSE
    /\ killswitch = "HARD"
    /\ killswitch_obj = None
    /\ stack = <<>>
    /\ op = [NewOp("init", None) EXCEPT !.status = "ok"]
    /\ pre = NoSnapshot
    /\ ev = {}
    /\ faults = 0
    /\ log = EmptyLog
    /\ window = NoWindow

\* authenticate is called, once.
CallLogin ==
    /\ op.name = "init"
    /\ Begin("authenticate", "u1", Frame("call", "authenticate", "select"))

NextLogin ==
    \/ CallLogin
    \/ StrategySelect
    \/ AuthenticateLogin
    \/ AuthenticateSetUser
    \/ Refresh
    \/ VpnDataFetch
    \/ UpdateIfNeeded
    \/ AccessorInit
    \/ AccessorIcons
    \/ UpdateIconsIfNeeded
    \/ AccessorVpnData

SpecLogin == InitLogin /\ [][NextLogin]_vars

(***************************************************************************)
(* The next fetch times                                                    *)
(***************************************************************************)
\* random.random() returns one of the values k / RandomSteps, 0 <= k < RandomSteps.
RandomSteps == 4

\* The latest *_timestamp an object may have.
MaxTimestamp == 60

Timestamps == {0, MaxTimestamp}

FULL_CACHE_TIME_EXPIRE == 180 * 60

STREAMING_SERVICES_TIME_EXPIRE == FULL_CACHE_TIME_EXPIRE

CLIENT_CONFIG_TIME_EXPIRE == FULL_CACHE_TIME_EXPIRE

STREAMING_ICON_TIME_EXPIRE == 480 * 60

LOADS_CACHE_TIME_EXPIRE == 15 * 60

\* RANDOM_FRACTION = 0.22, in hundredths
RANDOM_FRACTION == 22

Scale == 100 * RandomSteps

\* A random component without the "- 1": 1 + 0.22 * 2 * random.
GenerateRandomComponentOneSided(k) == Scale + RANDOM_FRACTION * 2 * k

\* __generate_random_component, times Scale:
\* 1 + RANDOM_FRACTION * (2 * random.random() - 1) with random.random() = k / RandomSteps
GenerateRandomComponent(k) == Scale + RANDOM_FRACTION * (2 * k - RandomSteps)

\* The constant each _update_next_fetch_* multiplies with.
TimeExpire(r) ==
    CASE r = "logicals" -> FULL_CACHE_TIME_EXPIRE
      [] r = "loads" -> LOADS_CACHE_TIME_EXPIRE
      [] r = "clientconfig" -> CLIENT_CONFIG_TIME_EXPIRE
      [] r = "streaming" -> STREAMING_SERVICES_TIME_EXPIRE
      [] OTHER -> STREAMING_ICON_TIME_EXPIRE

\* _update_next_fetch_*: timestamp + TIME_EXPIRE * random component, in 1 / Scale s.
UpdateNextFetch(w, r, k) ==
    [w EXCEPT ![r].next_fetch = w[r].timestamp * Scale + TimeExpire(r) * GenerateRandomComponent(k)]

InitWindow ==
    /\ Init
    /\ killswitch = "DISABLED"
    /\ ~alternative_routing

\* An object is loaded from its file or updated from the API, which sets its
\* timestamp, and its next fetch time is computed.
Recompute ==
    \E r \in Timed \ {"logicals", "loads"}, ts \in Timestamps, k \in 0..(RandomSteps - 1) :
        /\ window' = UpdateNextFetch([window EXCEPT ![r].timestamp = ts], r, k)
        /\ UNCHANGED <<alive, keyring, proton_user, api_login, url, tls_verification,
                       vpn_data, cache, corrupt, alternative_url, alternative_routing,
                       killswitch, killswitch_obj, stack, op, pre, ev, faults, log>>

\* The server list is loaded or its logicals or loads are updated, and both its
\* next fetch times are computed (lines 623-624, 656-657).
RecomputeServers ==
    \E tl \in Timestamps, td \in Timestamps, k1 \in 0..(RandomSteps - 1),
       k2 \in 0..(RandomSteps - 1) :
        /\ window' = UpdateNextFetch(
                        UpdateNextFetch([window EXCEPT !["logicals"].timestamp = tl,
                                                       !["loads"].timestamp = td],
                                        "logicals", k1),
                        "loads", k2)
        /\ UNCHANGED <<alive, keyring, proton_user, api_login, url, tls_verification,
                       vpn_data, cache, corrupt, alternative_url, alternative_routing,
                       killswitch, killswitch_obj, stack, op, pre, ev, faults, log>>

NextWindow == Recompute \/ RecomputeServers

SpecWindow == InitWindow /\ [][NextWindow]_vars

(***************************************************************************)
(* The caching properties and logout, with cache files that get damaged     *)
(***************************************************************************)
InitFiles ==
    /\ alive = TRUE
    /\ keyring = [user |-> "u1", session |-> Dump("u1", API_URL), vpn |-> None]
    /\ proton_user = "u1"
    /\ api_login = "u1"
    /\ url = API_URL
    /\ tls_verification = TRUE
    /\ vpn_data = None
    /\ cache = EmptyCache
    /\ corrupt = {}
    /\ alternative_url = API_URL
    /\ alternative_routing = FALSE
    /\ killswitch \in {"DISABLED", "HARD"}
    /\ killswitch_obj = None
    /\ stack = <<>>
    /\ op = [NewOp("init", None) EXCEPT !.status = "ok"]
    /\ pre = NoSnapshot
    /\ ev = {}
    /\ faults = 0
    /\ log = NoLog
    /\ window = NoWindow

NextFiles ==
    \/ CallProperty
    \/ CallLogout
    \/ CorruptFile
    \/ StrategySelect
    \/ LogoutClearKeyring
    \/ LogoutFinish
    \/ Refresh
    \/ VpnDataFetch
    \/ UpdateIfNeeded
    \/ AccessorInit
    \/ AccessorIcons
    \/ UpdateIconsIfNeeded
    \/ AccessorVpnData

SpecFiles == InitFiles /\ [][NextFiles]_vars

(***************************************************************************)
(* update_servers_if_needed against the clock                              *)
(***************************************************************************)
\* The values time.time() returns, in seconds: before every next fetch time,
\* among the ones of the loads, among the ones of the logicals, after all.
Clock == {0, 1000, 9000, 14000}

InitServers ==
    /\ alive = TRUE
    /\ keyring = [user |-> "u1", session |-> Dump("u1", API_URL), vpn |-> None]
    /\ proton_user = "u1"
    /\ api_login = "u1"
    /\ url = API_URL
    /\ tls_verification = TRUE
    /\ vpn_data = None
    /\ cache = EmptyCache
    /\ corrupt = {}
    /\ alternative_url = API_URL
    /\ alternative_routing = FALSE
    /\ killswitch \in {"DISABLED", "HARD"}
    /\ killswitch_obj = None
    /\ stack = <<>>
    /\ op = [NewOp("init", None) EXCEPT !.status = "ok"]
    /\ pre = NoSnapshot
    /\ ev = {}
    /\ faults = 0
    /\ log = EmptyLog
    /\ window = NoWindow

\* A log entry of update_servers_if_needed.
Entry(k, x) ==
    [k |-> k, fn |-> "update_servers", via |-> "-", nest |-> 0, url |-> url,
     tls |-> tls_verification, x |-> x]

\* An update that looks at the loads first.
WhichFetchLoadsFirst(w, now, force) ==
    CASE w["loads"].next_fetch < now * Scale -> "loads"
      [] w["logicals"].next_fetch < now * Scale \/ force -> "logicals"
      [] OTHER -> "none"

\* Lines 614-621: the logicals when their time has passed or force is set, else
\* the loads when their time has passed, else nothing.
WhichFetch(w, now, force) ==
    CASE w["logicals"].next_fetch < now * Scale \/ force -> "logicals"
      [] w["loads"].next_fetch < now * Scale -> "loads"
      [] OTHER -> "none"

\* servers, lines 641-657, on first use: the list is made and loaded from its
\* file, which sets its two timestamps, and both next fetch times are computed.
LoadServers ==
    /\ window["logicals"].next_fetch = Unset
    /\ \E tl \in Timestamps, td \in Timestamps, k1 \in 0..(RandomSteps - 1),
          k2 \in 0..(RandomSteps - 1) :
        window' = UpdateNextFetch(
                     UpdateNextFetch([window EXCEPT !["logicals"].timestamp = tl,
                                                    !["loads"].timestamp = td],
                                     "logicals", k1),
                     "loads", k2)
    /\ log' = [log EXCEPT !.seq = <<Entry("load", "servers")>>]
    /\ UNCHANGED <<alive, keyring, proton_user, api_login, url, tls_verification,
                   vpn_data, cache, corrupt, alternative_url, alternative_routing,
                   killswitch, killswitch_obj, stack, op, pre, ev, faults>>

\* update_servers_if_needed(force) at the time now, lines 605-637, in a log of
\* its own: the request is answered with o, the answer sets the timestamps of
\* the list, the file is written or not.
UpdateServersIfNeeded ==
    /\ \E now \in Clock, force \in BOOLEAN, o \in {Ok, Exc("ConnectionTimeOutError")},
          written \in BOOLEAN, tl \in Timestamps, td \in Timestamps,
          k1 \in 0..(RandomSteps - 1), k2 \in 0..(RandomSteps - 1) :
        LET call == Entry("call", [now |-> now, force |-> force])
            what == WhichFetch(window, now, force)
        IN  CASE killswitch = "HARD" /\ ~force ->
                    /\ log' = [log EXCEPT !.seq = <<call, Entry("return", None)>>]
                    /\ window' = window
              [] window["logicals"].next_fetch = Unset ->
                    /\ log' = [log EXCEPT !.seq = <<call, Entry("raise", "AttributeError")>>]
                    /\ window' = window
              [] what = "none" ->
                    /\ log' = [log EXCEPT !.seq = <<call, Entry("return", "True")>>]
                    /\ window' = window
              [] o # Ok ->
                    /\ log' = [log EXCEPT !.seq = <<call, Entry("fetch", what),
                                                    Entry("request", o),
                                                    Entry("raise", o.cls)>>]
                    /\ window' = window
              [] OTHER ->
                    /\ log' = [log EXCEPT !.seq =
                                  <<call, Entry("fetch", what), Entry("request", o),
                                    Entry("body", "logicals")>>
                                  \o (IF written THEN <<Entry("saved", "logicals")>> ELSE <<>>)
                                  \o <<Entry("return", "True")>>]
                    /\ window' = UpdateNextFetch(
                                    UpdateNextFetch(
                                        [window EXCEPT !["logicals"].timestamp = tl,
                                                       !["loads"].timestamp = td],
                                        "logicals", k1),
                                    "loads", k2)
    /\ UNCHANGED <<alive, keyring, proton_user, api_login, url, tls_verification,
                   vpn_data, cache, corrupt, alternative_url, alternative_routing,
                   killswitch, killswitch_obj, stack, op, pre, ev, faults>>

NextServers == LoadServers \/ UpdateServersIfNeeded

SpecServers == InitServers /\ [][NextServers]_vars

(***************************************************************************)
(* Settings.killswitch (core/user/settings.py)                             *)
(***************************************************************************)
\* The values of KillswitchStatusEnum a caller may pass to the setter.
KillswitchSettings == {"DISABLED", "SOFT", "HARD"}

\* What killswitch_obj.update_from_user_configuration_menu may end with: it
\* returns, or raises DisableConnectivityCheckError, another ProtonVPNException,
\* an AttributeError of its own or any other Exception.
ApplyOutcomes ==
    {"ok", "DisableConnectivityCheckError", "ProtonVPNException", "AttributeError",
     "Exception"}

InitSettings ==
    /\ alive = TRUE
    /\ keyring = EmptyKeyring
    /\ proton_user = None
    /\ api_login = None
    /\ url = API_URL
    /\ tls_verification = TRUE
    /\ vpn_data = None
    /\ cache = EmptyCache
    /\ corrupt = {}
    /\ alternative_url = API_URL
    /\ alternative_routing = FALSE
    /\ killswitch \in KillswitchSettings
    /\ killswitch_obj = None
    /\ stack = <<>>
    /\ op = [NewOp("init", None) EXCEPT !.status = "ok"]
    /\ pre = NoSnapshot
    /\ ev = {}
    /\ faults = 0
    /\ log = EmptyLog
    /\ window = NoWindow

\* A log entry of the setter.
SettingsEntry(k, x) ==
    [k |-> k, fn |-> "killswitch.setter", via |-> "-", nest |-> 0, url |-> url,
     tls |-> tls_verification, x |-> x]

\* A setter whose clause for AttributeError stands first.
SetterCaughtAttributeFirst(e) ==
    IF e = "AttributeError"
    THEN "pass"
    ELSE IF e = "DisableConnectivityCheckError"
         THEN "raise Exception(connectivity check)"
         ELSE "raise Exception(e)"

\* Lines 96-108: the first except clause that matches e, in the order written.
\* Every error modelled is an Exception, AttributeError too, so the clause of
\* line 104 takes whatever line 96 did not and the one of line 107 nothing.
SetterCaught(e) ==
    IF e = "DisableConnectivityCheckError"
    THEN "raise Exception(connectivity check)"
    ELSE IF e \in ApplyOutcomes
         THEN "raise Exception(e)"
         ELSE IF e = "AttributeError"
              THEN "pass"
              ELSE "propagate"

\* Somebody assigns a kill switch object to settings.killswitch_obj (the
\* attribute is None after __init__, line 44).
AttachKillswitch ==
    /\ Idle
    /\ killswitch_obj = None
    /\ \E v \in KillswitchSettings : killswitch_obj' = v
    /\ op' = [NewOp("attach", None) EXCEPT !.status = "ok"]
    /\ log' = [log EXCEPT !.seq = <<>>]
    /\ UNCHANGED <<alive, keyring, proton_user, api_login, url, tls_verification,
                   vpn_data, cache, corrupt, alternative_url, alternative_routing,
                   killswitch, stack, pre, ev, faults, window>>

\* settings.killswitch = v, lines 85-110: the value is applied to the kill
\* switch object (None has no such method: AttributeError); an object that
\* raised may or may not have taken the value; the value is stored (else, line
\* 110) only when nothing was raised.
SetKillswitch ==
    /\ Idle
    /\ \E v \in KillswitchSettings, a \in ApplyOutcomes, applied \in BOOLEAN :
        /\ killswitch_obj = None => (a = "AttributeError" /\ ~applied)
        /\ a = "ok" => applied
        /\ killswitch_obj' = IF applied THEN v ELSE killswitch_obj
        /\ LET begun == <<SettingsEntry("set", v), SettingsEntry("apply", a)>>
               how == SetterCaught(a)
           IN  IF a = "ok"
               THEN /\ killswitch' = v
                    /\ op' = [NewOp("set_killswitch", None) EXCEPT !.status = "ok"]
                    /\ log' = [log EXCEPT !.seq = begun \o <<SettingsEntry("store", v)>>]
               ELSE /\ killswitch' = killswitch
                    /\ op' = IF how = "pass"
                             THEN [NewOp("set_killswitch", None) EXCEPT !.status = "ok"]
                             ELSE [NewOp("set_killswitch", None) EXCEPT
                                       !.status = "raised",
                                       !.exc = IF how = "propagate" THEN a ELSE "Exception"]
                    /\ log' = [log EXCEPT !.seq = begun \o <<SettingsEntry("caught", how)>>]
    /\ UNCHANGED <<alive, keyring, proton_user, api_login, url, tls_verification,
                   vpn_data, cache, corrupt, alternative_url, alternative_routing,
                   stack, pre, ev, faults, window>>

NextSettings == AttachKillswitch \/ SetKillswitch

SpecSettings == InitSettings /\ [][NextSettings]_vars

(***************************************************************************)
(* Properties of the session life cycle                                    *)
(***************************************************************************)
\* is_valid, lines 470-479
is_valid == proton_user # None

InProgress(name) == alive /\ stack # <<>> /\ op.name = name

Finished(name) == alive /\ op.name = name /\ op.status \in {"ok", "raised"}

\* A process starts after the one before was killed in the operation name.
LoadsAfterKilled(name) == ~alive /\ alive' /\ op.name = name /\ op.status = "killed"

Absent(k) == k.user = None /\ k.session = NoSession

\* C1: during and after authenticate the keyring never holds an identity entry
\* without a session entry issued for that same login, and a process that loads
\* the keyring after authenticate was killed between its two writes ends with
\* both entries absent.
C1_AuthenticatePairsEntries ==
    /\ [](op.name = "authenticate" /\ keyring.user # None
            => keyring.session # NoSession /\ keyring.session.login = keyring.user)
    /\ [][LoadsAfterKilled("authenticate") /\ op.at = "set_user" => Absent(keyring')]_vars

\* C2: a load that finds exactly one of the identity and session entries deletes
\* both, leaves the vpn entry as it is and gives no valid session.
C2_LoadClearsOrphan ==
    [][~alive /\ alive' /\ ((keyring.user = None) # (keyring.session = NoSession))
        => Absent(keyring') /\ keyring'.vpn = keyring.vpn /\ ~is_valid']_vars

C2_Witness ==
    /\ alive
    /\ op.name = "init"
    /\ "orphan" \in ev
    /\ keyring.vpn # None
    /\ Absent(keyring)
    /\ ~is_valid

\* C3: a load that finds a stored session whose api_url is neither the primary
\* url nor the alternative url known (which may be the primary url itself) does
\* not adopt it and leaves both entries in the keyring.
C3_LoadSkipsForeignSession ==
    [][~alive /\ alive' /\ keyring.user # None /\ keyring.session # NoSession
         /\ keyring.session.api_url # API_URL
         /\ keyring.session.api_url # alternative_url'
        => ~is_valid' /\ keyring' = keyring]_vars

\* C4: every logout, the first and one called again after it, returns True
\* whatever the API answers, and leaves no identity in memory and none of the
\* three entries in the keyring, in the same state each time.
C4_LogoutTotal ==
    Finished("logout")
        => /\ op.status = "ok"
           /\ ~is_valid
           /\ keyring = EmptyKeyring
           /\ api_login = None /\ vpn_data = None
           /\ url = API_URL /\ tls_verification

C4_Witness ==
    /\ Finished("logout")
    /\ "again" \in ev
    /\ "api_failed" \in ev

\* C5: logout deletes the vpn entry before the session and identity entries, and
\* a load after a logout killed at any point finds either the identity and
\* session entries the logout started with, or neither of them and no session.
C5_LogoutInterrupted ==
    [][/\ InProgress("logout") /\ (keyring'.session # keyring.session \/ keyring'.user # keyring.user)
            => keyring.vpn = None
       /\ LoadsAfterKilled("logout")
            => \/ /\ keyring'.user = pre.user /\ keyring'.session = pre.session
                  /\ proton_user' \in {None, pre.user}
               \/ Absent(keyring') /\ ~is_valid']_vars

C5_Witness ==
    /\ alive
    /\ op.name = "init"
    /\ op.prev = "logout"
    /\ "orphan" \in ev
    /\ Absent(keyring)

\* C6: a refresh called while there is no valid session raises
\* APISessionIsNotValidError, asks the API for no refresh, looks up no
\* alternative routes and writes nothing to the keyring.
C6_RefreshNeedsSession ==
    /\ [](Finished("refresh") /\ ~is_valid
            => op.exc = "APISessionIsNotValidError"
               /\ ev \cap {"api_refresh", "lookup"} = {})
    /\ [][InProgress("refresh") /\ ~is_valid => keyring' = keyring]_vars

C6_Witness ==
    /\ Finished("refresh")
    /\ ~is_valid
    /\ op.exc = "APISessionIsNotValidError"

\* C7: a refresh changes neither the identity entry, nor the vpn entry, nor the
\* identity in memory, and it changes the session entry only when the API has
\* answered its refresh request.
C7_RefreshFrame ==
    [][InProgress("refresh")
        => /\ keyring'.user = keyring.user
           /\ keyring'.vpn = keyring.vpn
           /\ alive' => proton_user' = proton_user
           /\ keyring' # keyring => "refresh_ok" \in ev']_vars

C7_Witness ==
    /\ Finished("refresh")
    /\ op.status = "ok"
    /\ "refresh_ok" \in ev
    /\ keyring.user # None
    /\ keyring.vpn # None
    /\ keyring.session.api_url # API_URL

\* C8: as long as the login of an authenticate has not succeeded, on the primary
\* url or on any route tried, the keyring and the identity in memory stay as they
\* were.
C8_FailedLoginWritesNothing ==
    [][InProgress("authenticate") /\ "login_ok" \notin ev'
        => keyring' = keyring /\ (alive' => proton_user' = proton_user)]_vars

C8_Witness ==
    /\ Finished("authenticate")
    /\ op.status = "raised"
    /\ "login_ok" \notin ev
    /\ "route" \in ev
    /\ keyring = EmptyKeyring
    /\ ~is_valid

\* C9: an authenticate whose login was answered with 401 or 403 raises nothing.
C9_LoginCodeIgnored ==
    Finished("authenticate") /\ "ignored" \in ev => op.status = "ok"

\* C10: a call whose attempt was answered with 429 waits and then calls the
\* function again.
C10_RetryAfter429 ==
    alive /\ op.status \in {"ok", "raised"} /\ "got_429" \in ev => "sleep" \in ev

(***************************************************************************)
(* Properties of the calls, read off the log                               *)
(***************************************************************************)
LogEntries(k) == {i \in 1..Len(log.seq) : log.seq[i].k = k}

\* The attempts of normal calls that were answered with 401 and went to the handler.
Handled401 ==
    {i \in LogEntries("request") :
        /\ Variant(log.seq[i].fn) = "NormalCall"
        /\ log.seq[i].via # "retry"
        /\ log.seq[i].x = ApiError(401)}

\* The calls of refresh() by a 401 handler, and the executions by
\* _call_without_error_handling.
RefreshCalls == {i \in LogEntries("select") : log.seq[i].fn = "refresh" /\ log.seq[i].nest = 1}

Retries == {i \in LogEntries("request") : log.seq[i].via = "retry"}

\* The refresh() of the handler returned: a request of it was answered.
RefreshReturned ==
    \E i \in LogEntries("request") :
        log.seq[i].fn = "refresh" /\ log.seq[i].nest = 1 /\ log.seq[i].x = Ok

C12_NoFallbackWhenDisabled ==
    ~alternative_routing =>
        /\ LogEntries("lookup") = {}
        /\ LogEntries("probe") = {}
        /\ \A i \in LogEntries("request") :
            /\ log.seq[i].via # "route"
            /\ log.seq[i].via = "primary"
               /\ log.seq[i].x.cls \in {"ConnectionTimeOutError", "TLSPinningError"} =>
                /\ i = Len(log.seq)
                /\ Idle
                /\ op.status = "raised"
                /\ op.exc = IF log.seq[i].x.cls = "ConnectionTimeOutError"
                            THEN "APITimeoutError"
                            ELSE "InsecureConnection"

C12_Witness ==
    /\ ~alternative_routing
    /\ Idle
    /\ op.exc = "InsecureConnection"
    /\ log.seq # <<>>
    /\ log.seq[Len(log.seq)].k = "request"
    /\ log.seq[Len(log.seq)].x.cls = "TLSPinningError"

\* The entries after the lookup at L up to i are the probe and then attempts on
\* routes by the call that looked up.
RouteRun(L, i) ==
    /\ L + 1 < i
    /\ log.seq[L + 1].k = "probe"
    /\ \A j \in (L + 2)..i :
        /\ log.seq[j].k = "request"
        /\ log.seq[j].via = "route"
        /\ log.seq[j].fn = log.seq[L].fn
        /\ log.seq[j].nest = log.seq[L].nest

RouteAttempts == {i \in LogEntries("request") : log.seq[i].via = "route"}

\* C13: the routes are tried in the order in which the lookup returned them, a
\* route is tried only after every route before it has failed with a timeout, a
\* connection that could not be made or a failed pinning, and so none is tried
\* after one that was answered.
C13_RoutesInOrder ==
    \A i \in RouteAttempts :
        \E L \in LogEntries("lookup") :
            /\ RouteRun(L, i)
            /\ log.seq[L].x.fetched
            /\ i - L - 1 <= Len(log.seq[L].x.routes)
            /\ log.seq[i].url = HttpsUrl(log.seq[L].x.routes[i - L - 1])
            /\ \A j \in (L + 2)..(i - 1) :
                log.seq[j].x.cls \in {"ConnectionTimeOutError", "NewConnectionError",
                                      "TLSPinningError"}

C13_Witness ==
    /\ Idle
    /\ \E L \in LogEntries("lookup") :
        /\ L + 3 <= Len(log.seq)
        /\ RouteRun(L, L + 3)
        /\ Len(log.seq[L].x.routes) = 2
        /\ log.seq[L + 2].x.cls = "NewConnectionError"
        /\ log.seq[L + 3].x = Ok
        /\ log.seq[L + 3].url = HttpsUrl(log.seq[L].x.routes[2])

\* The step ends with the answer x of is_api_reacheable()'s request.
Probed(x) ==
    /\ Len(log'.seq) > Len(log.seq)
    /\ log'.seq[Len(log'.seq)].k = "probe"
    /\ log'.seq[Len(log'.seq)].x = x

\* C14: when is_api_reacheable() finds the API reachable no route is tried, then
\* or later in the call, no alternative url is saved and the call raises
\* NetworkConnectionError.
C14_ReachableEndsFallback ==
    /\ [](\A i \in LogEntries("probe") : log.seq[i].x = Ok => i = Len(log.seq))
    /\ [][Probed(Ok) =>
            /\ alternative_url' = alternative_url
            /\ stack' = <<>>
            /\ op'.status = "raised"
            /\ op'.exc = "NetworkConnectionError"]_vars

C14_Witness ==
    /\ Idle
    /\ Len(log.seq) >= 2
    /\ log.seq[Len(log.seq)].k = "probe"
    /\ log.seq[Len(log.seq)].x = Ok
    /\ log.seq[Len(log.seq) - 1].k = "lookup"
    /\ log.seq[Len(log.seq) - 1].x.routes # <<>>
    /\ op.status = "raised"
    /\ op.exc = "NetworkConnectionError"

\* The log ends with: the primary attempt timed out, two or more routes were
\* returned, the API was found unreachable, the first route timed out and the
\* second answered.
SecondRouteAnswered ==
    LET n == Len(log.seq)
    IN  /\ n >= 5
        /\ RouteRun(n - 3, n)
        /\ log.seq[n - 4].k = "request"
        /\ log.seq[n - 4].via = "primary"
        /\ log.seq[n - 4].x.cls = "ConnectionTimeOutError"
        /\ log.seq[n - 3].k = "lookup"
        /\ Len(log.seq[n - 3].x.routes) >= 2
        /\ IsUnreachable(log.seq[n - 2].x)
        /\ log.seq[n - 1].x.cls = "ConnectionTimeOutError"
        /\ log.seq[n].x = Ok

\* The step is the first attempt of a call for which should_try_original_url()
\* was answered with x.
FirstAttempt(x) ==
    /\ Len(log'.seq) = Len(log.seq) + 1
    /\ Len(log.seq) >= 1
    /\ log'.seq[Len(log'.seq)].k = "request"
    /\ log'.seq[Len(log'.seq)].via = "primary"
    /\ log.seq[Len(log.seq)].k = "select"
    /\ log.seq[Len(log.seq)].x = x

\* C15: with alternative routing enabled, a call whose primary attempt timed out,
\* whose probe found the API unreachable and whose second route answered after
\* the first had timed out returns, and the url of that route is the alternative
\* url saved; as long as should_try_original_url() is not answered with yes,
\* every call makes its first attempt at the alternative url saved.
C15_AnsweringRouteIsKept ==
    /\ [](Idle /\ SecondRouteAnswered =>
            /\ op.status = "ok"
            /\ alternative_url = HttpsUrl(log.seq[Len(log.seq) - 3].x.routes[2])
            /\ url = alternative_url)
    /\ [][FirstAttempt(FALSE) /\ alternative_routing /\ alternative_url # API_URL =>
            log'.seq[Len(log'.seq)].url = alternative_url]_vars

C15_Witness ==
    /\ Idle
    /\ SecondRouteAnswered
    /\ op.status = "ok"
    /\ alternative_url = HttpsUrl("alt2")
    /\ log.seq[Len(log.seq)].url = HttpsUrl("alt2")

\* C16: whenever a request is sent, by the primary attempt of a call, by an
\* attempt on a route, by the refresh of a 401 handler, by the execution after
\* it or by is_api_reacheable(), certificates are verified if and only if the
\* url of the session is the primary one; no request goes to the primary url
\* unverified, whatever hosts the list of routes holds.
C16_VerifiedIffPrimaryUrl ==
    \A i \in LogEntries("request") \cup LogEntries("probe") :
        log.seq[i].tls <=> (log.seq[i].url = API_URL)

\* C17: a primary attempt that ends with UnknownConnectionError ends the call at
\* once with UnknownAPIError, whether alternative routing is enabled or not: no
\* lookup of routes, no probe and no attempt on a route follows it.
C17_UnknownErrorPropagates ==
    \A i \in LogEntries("request") :
        log.seq[i].via = "primary" /\ log.seq[i].x.cls = "UnknownConnectionError" =>
            /\ i = Len(log.seq)
            /\ Idle
            /\ op.status = "raised"
            /\ op.exc = "UnknownAPIError"

\* C18: every next fetch time computed lies between the timestamp of its object
\* plus 78 % and the timestamp plus 122 % of the lifetime of that object, for the
\* logicals, the loads, the client configuration, the streaming services and the
\* streaming icons.
C18_NextFetchWithinWindow ==
    \A r \in Timed :
        window[r].next_fetch # Unset =>
            /\ window[r].next_fetch >=
                   window[r].timestamp * Scale + TimeExpire(r) * (100 - 22) * RandomSteps
            /\ window[r].next_fetch <=
                   window[r].timestamp * Scale + TimeExpire(r) * (100 + 22) * RandomSteps

C18_Witness ==
    /\ window["loads"].timestamp = MaxTimestamp
    /\ window["loads"].next_fetch = (MaxTimestamp + 702) * Scale
    /\ window["icons"].next_fetch # Unset
    /\ window["icons"].next_fetch > (window["icons"].timestamp + 480 * 60) * Scale

\* An update_*_if_needed, called without force by its property, is about to run.
UpdateAtWork ==
    \/ At("body", Updaters, {"check"})
    \/ At("acc", {"streaming_icons"}, {"update"})

\* C19: under the hard kill switch an update_*_if_needed called without force,
\* and so every read of a caching property, sends no request, looks up no
\* routes and probes nothing, and leaves the object, its next fetch time and its
\* cache file as they are, due or not.
C19_HardKillSwitchNoRefresh ==
    /\ [](killswitch = "HARD" =>
            \A i \in 1..Len(log.seq) :
                log.seq[i].k \notin {"request", "lookup", "probe", "body"})
    /\ [][killswitch = "HARD" /\ UpdateAtWork =>
            cache' = cache /\ corrupt' = corrupt /\ window' = window]_vars

C19_Witness ==
    /\ Idle
    /\ killswitch = "HARD"
    /\ op.name = "servers"
    /\ op.status = "ok"
    /\ "again" \in ev
    /\ cache["logicals"].nf
    /\ \E i \in LogEntries("swallowed") : log.seq[i].x = "NetworkConnectionError"

\* C20: servers, clientconfig, streaming and streaming_icons never raise what
\* their update_*_if_needed raised, whatever it is: they return the object they
\* hold, and an update that raised has left the body of that object as it was.
C20_FailedRefreshKeepsBody ==
    /\ Idle /\ op.status = "raised" => op.exc = "FileError"
    /\ \A i \in LogEntries("swallowed") :
        \A j \in 1..i :
            ~(log.seq[j].k = "body" /\ log.seq[j].x = ResourceOf(log.seq[i].fn))

\* The error the handlers of lines 212-222 and 235-236 raise for a code.
DomainError(code) ==
    CASE code = 403 -> "API403Error"
      [] code = 5002 -> "API5002Error"
      [] code = 5003 -> "API5003Error"
      [] code = 10013 -> "API10013Error"
      [] OTHER -> "API8002Error"

\* The attempts made under the error handling of the decorator that were answered
\* with a code for which the variant has a handler that raises.
FatallyAnswered ==
    {i \in LogEntries("request") :
        /\ log.seq[i].via \in {"primary", "route"}
        /\ log.seq[i].x.cls = "ProtonAPIError"
        /\ \/ Variant(log.seq[i].fn) = "NormalCall"
              /\ log.seq[i].x.code \in {403, 5002, 5003, 10013}
           \/ Variant(log.seq[i].fn) = "Authenticate" /\ log.seq[i].x.code = 8002}

\* C21: an attempt of a normal call answered with 403, 5002, 5003 or 10013, and
\* an attempt of authenticate answered with 8002, ends the call at once with the
\* error named after the code: nothing is sent, refreshed, looked up or tried
\* for that call after it.
C21_FatalCodeRaisesAtOnce ==
    \A i \in FatallyAnswered :
        \/ /\ i = Len(log.seq)
           /\ Idle
           /\ op.status = "raised"
           /\ op.exc = DomainError(log.seq[i].x.code)
        \/ /\ i < Len(log.seq)
           /\ log.seq[i + 1].k = "swallowed"
           /\ log.seq[i + 1].x = DomainError(log.seq[i].x.code)

C21_Witness ==
    /\ Idle
    /\ op.name = "authenticate"
    /\ op.exc = "API10013Error"
    /\ Len(log.seq) \in FatallyAnswered
    /\ log.seq[Len(log.seq)].fn = "vpn_fetch"

\* The lookups of the call the operation started itself (not of a refresh made
\* by a 401 handler) after which no route was answered: every attempt on a route
\* of that call ended with an error of the transport.
LookupsWithoutResult ==
    {L \in LogEntries("lookup") :
        /\ log.seq[L].nest = 0
        /\ \A i \in RouteAttempts :
              (i > L /\ log.seq[i].nest = 0) => IsNetworkError(log.seq[i].x)}

\* C22: a call that went into the fallback (alternative routing enabled, primary
\* attempt failed in the transport) and in which no route gave a result, because
\* the lookup failed, returned no route, or every route failed in the transport,
\* ends with NetworkConnectionError.
C22_NoResultIsConnectivityError ==
    (Idle /\ LookupsWithoutResult # {}) =>
        /\ op.status = "raised"
        /\ op.exc = "NetworkConnectionError"

\* C23: once authenticate has logged in, stored the session and the user name and
\* set the user of the session, nothing that goes wrong in the five reads of
\* lines 462-466 comes out of it: authenticate returns True and the session is
\* valid.
C23_WarmUpFailureNotPropagated ==
    (Idle /\ op.name = "authenticate" /\ proton_user # None) =>
        /\ op.status = "ok"
        /\ is_valid

\* The bodies replaced by an update executed by its decorator (at the primary url
\* or on a route) whose write of the cache file failed.
UnsavedBodies ==
    {i \in LogEntries("body") :
        /\ log.seq[i].via \in {"primary", "route"}
        /\ (i < Len(log.seq) => log.seq[i + 1].k # "saved")}

Did(k) == {i \in 1..Len(log'.seq) : log'.seq[i].k = k}

\* The next fetch time of r after the step is one computed from the timestamp r
\* has after the step.
Recomputed(r) ==
    \E k \in 0..(RandomSteps - 1) :
        window'[r].next_fetch = window'[r].timestamp * Scale + TimeExpire(r) * GenerateRandomComponent(k)

\* C25: an execution of update_servers_if_needed that got past the kill switch
\* makes at most one fetch: of the logicals if their next fetch time has passed
\* or force is set; else of the loads if and only if their next fetch time has
\* passed; else it fetches nothing, writes no file and leaves the times as they
\* are. After a fetch that was answered both next fetch times are computed anew.
C25_OneFetchPerRefresh ==
    [][(/\ Did("call") # {}
        /\ window["logicals"].next_fetch # Unset
        /\ ~(killswitch = "HARD" /\ ~log'.seq[1].x.force))
       => LET now == log'.seq[1].x.now
              force == log'.seq[1].x.force
              full == window["logicals"].next_fetch < now * Scale \/ force
              part == ~full /\ window["loads"].next_fetch < now * Scale
          IN  /\ Cardinality(Did("fetch")) <= 1
              /\ Cardinality(Did("request")) <= 1
              /\ (\E i \in Did("fetch") : log'.seq[i].x = "logicals") <=> full
              /\ (\E i \in Did("fetch") : log'.seq[i].x = "loads") <=> part
              /\ (~full /\ ~part) =>
                    Did("request") = {} /\ Did("saved") = {} /\ window' = window
              /\ (\E i \in Did("request") : log'.seq[i].x = Ok) =>
                    Recomputed("logicals") /\ Recomputed("loads")
      ]_vars

\* The loads were fetched, not the logicals, and both times were computed.
C25_Witness ==
    /\ \E i \in LogEntries("fetch") : log.seq[i].x = "loads"
    /\ \E i \in LogEntries("request") : log.seq[i].x = Ok
    /\ ~log.seq[1].x.force
    /\ window["logicals"].next_fetch > log.seq[1].x.now * Scale

\* The attempts of the decorator that were answered with a code whose handler
\* returns without raising, and the executions of a 401 handler that returned.
HandlerReturns ==
    {i \in LogEntries("request") :
        \/ /\ log.seq[i].via \in {"primary", "route"}
           /\ log.seq[i].x.cls = "ProtonAPIError"
           /\ HandleApiError(Variant(log.seq[i].fn), log.seq[i].x).act = "pass"
        \/ log.seq[i].via = "retry" /\ log.seq[i].x = Ok}

\* C26: a call that returned has as its last step an attempt of the decorator
\* itself, at the primary url or on a route, that returned a result; a handler
\* that returned, because the code is ignored or because the refresh and the
\* execution after it went well, ends the call with NetworkConnectionError.
C26_OnlyDirectResultReturned ==
    /\ (Idle /\ op.status = "ok" /\ log.seq # <<>>) =>
            /\ log.seq[Len(log.seq)].k = "request"
            /\ log.seq[Len(log.seq)].via \in {"primary", "route"}
            /\ log.seq[Len(log.seq)].nest = 0
            /\ log.seq[Len(log.seq)].x = Ok
    /\ \A i \in HandlerReturns :
            /\ i = Len(log.seq)
            /\ Idle
            /\ op.status = "raised"
            /\ op.exc = "NetworkConnectionError"

\* The refresh of the 401 handler and the execution after it went well.
C26_Witness ==
    /\ Idle
    /\ op.exc = "NetworkConnectionError"
    /\ vpn_data # None
    /\ Len(log.seq) \in HandlerReturns
    /\ log.seq[Len(log.seq)].via = "retry"

Kept == {"clientconfig", "streaming", "icons"}

\* C27: the step in which logout resets the memory leaves the objects of the
\* client configuration, the streaming services and the streaming icons and
\* their next fetch times as they are, while the user, the vpn data and the
\* server list are reset and the cache files are gone; a property whose object
\* exists does not read its file again, whatever is in it.
C27_LogoutKeepsCachedObjects ==
    /\ [][(At("body", {"logout"}, {"api_logout"}) /\ alive')
            => /\ \A r \in Kept : cache'[r] = cache[r]
               /\ ~cache'["logicals"].obj
               /\ proton_user' = None
               /\ vpn_data' = None
               /\ corrupt' = {}]_vars
    /\ [][(/\ At("acc", {"clientconfig", "streaming", "streaming_icons"}, {"init"})
           /\ cache[ResourceOf(stack[Len(stack)].fn)].obj
           /\ alive')
            => /\ cache' = cache
               /\ stack' # <<>>]_vars

C27_Witness ==
    /\ Idle
    /\ op.name = "logout"
    /\ op.status = "ok"
    /\ \A r \in Kept : cache[r].obj /\ cache[r].nf
    /\ ~cache["logicals"].obj
    /\ proton_user = None

\* C28: an object that exists has its next fetch time computed, after every
\* sequence of reads of the properties and logouts, whatever the cache files
\* held when they were loaded.
C28_ObjectHasNextFetch ==
    \A r \in Resources : cache[r].obj => cache[r].nf

\* C29: in every process, between its operations (the load of the keyring,
\* authenticate, refresh and logout, each run to its end, returned or raised),
\* a valid session has both its user name and its session data in the keyring,
\* and a session is not valid when logout has ended.
C29_ValidHasBothEntries ==
    /\ (Idle /\ is_valid) => (keyring.user # None /\ keyring.session # NoSession)
    /\ Finished("logout") => ~is_valid

\* A session is still valid, with both entries, after a refresh that failed.
C29_Witness ==
    /\ Finished("refresh")
    /\ op.status = "raised"
    /\ is_valid
    /\ keyring.user # None
    /\ keyring.session # NoSession

\* C30: the selection of the endpoint before the first attempt of a call sets
\* the url of the session back to the primary url only when
\* should_try_original_url() says so; when it does not, and alternative routing
\* is not enabled or the alternative url saved is the primary one, the url stays
\* what it was; TLS verification is then on exactly for the primary url, and the
\* first attempt goes to that url with that verification, so a session left at
\* a route keeps sending there unverified.
C30_SelectionKeepsUrl ==
    /\ [][(At("call", AnyFn, {"select"}) /\ log'.seq # log.seq)
            => LET s == log'.seq[Len(log'.seq)]
               IN  /\ s.k = "select"
                   /\ (url' = API_URL /\ url # API_URL) => s.x
                   /\ (~s.x /\ (~alternative_routing \/ alternative_url = API_URL))
                         => url' = url
                   /\ tls_verification' = (url' = API_URL)]_vars
    /\ [](\A i \in LogEntries("request") :
            log.seq[i].via = "primary" =>
                /\ log.seq[i - 1].k = "select"
                /\ log.seq[i].url = log.seq[i - 1].url
                /\ log.seq[i].tls = (log.seq[i].url = API_URL))

\* The first attempt of a call went, unverified, to a route that is not the
\* alternative url saved: the url an earlier fallback left behind.
C30_Witness ==
    /\ alternative_url = API_URL
    /\ \E i \in LogEntries("request") :
        /\ log.seq[i].via = "primary"
        /\ log.seq[i].nest = 0
        /\ ~log.seq[i - 1].x
        /\ log.seq[i].url # API_URL
        /\ ~log.seq[i].tls

\* C31: a step of the setter of settings.killswitch stores the new value if and
\* only if applying it to the kill switch object raised nothing; whenever
\* applying it raised, and so whenever no kill switch object is attached, the
\* setter raises and the value stored is the one stored before.
C31_KillswitchStoredIffApplied ==
    [][(Did("set") # {} /\ <<op, log, killswitch, killswitch_obj>>' # <<op, log, killswitch, killswitch_obj>>)
       => LET v == log'.seq[1].x
              a == log'.seq[2].x
          IN  /\ Did("store") # {} <=> a = "ok"
              /\ a = "ok" => (killswitch' = v /\ op'.status = "ok")
              /\ a # "ok" => (killswitch' = killswitch /\ op'.status = "raised")
              /\ killswitch_obj = None => a # "ok"
      ]_vars

\* The setter raised for want of a kill switch object and the value stored is
\* not the one it was called with.
C31_Witness ==
    /\ op.name = "set_killswitch"
    /\ op.status = "raised"
    /\ killswitch_obj = None
    /\ log.seq[2].x = "AttributeError"
    /\ log.seq[1].x # killswitch

====
